---- MODULE Spec2Model ----
(***************************************************************************)
(* Sliding-window object detection scripts.                                *)
(*                                                                         *)
(*   "openmv"     3.1.4 OpenMV/solution-live-sliding-window-object-        *)
(*                detection.py : the window scanner and its capture loop   *)
(*   "pi_project" 3.1.4 Raspberry Pi/project-live-sliding-window-object-   *)
(*                detection.py : the same settings and window counts, the  *)
(*                scan itself left to the reader                           *)
(*   "pi_detect"  3.3.1 live-detection-pi-cam.py : capture, classify,      *)
(*                draw the returned bounding boxes                         *)
(*                                                                         *)
(* Probabilities are integers in percent (0.6 is 60).  An image is its     *)
(* scene (what the camera saw), its extent (x, y, w, h) and the set of     *)
(* rectangles drawn on it.  The classifier is an unknown deterministic     *)
(* function of the patch it is given: net records the outputs it has       *)
(* produced so far for patches of the scene in view.                       *)
(***************************************************************************)
EXTENDS Integers, Sequences, FiniteSets, TLC

\* ---------------------------------------------------------------- bounds
MaxDim == 3          \* small frames and windows: sides 1..MaxDim
MaxStride == 2       \* strides 1..MaxStride
MaxFrames == 2       \* frames captured in one run
MaxRichWindows == 4  \* larger grids are scanned with constant classifiers

\* ------------------------------------------------------ program settings
target_threshold == 60
width == 160
height == 120
window_width == 48
window_height == 48
stride == 24
cam_width == 320
cam_height == 240
pi_window_width == 96
pi_window_height == 96
pi_stride == 24

target_label == <<"dog">>

OpenMVSettings ==
  [width |-> width, height |-> height, window_width |-> window_width,
   window_height |-> window_height, stride |-> stride]

PiSettings ==
  [width |-> cam_width, height |-> cam_height, window_width |-> pi_window_width,
   window_height |-> pi_window_height, stride |-> pi_stride]

SmallSettings ==
  [width : 1..MaxDim, height : 1..MaxDim, window_width : 1..MaxDim,
   window_height : 1..MaxDim, stride : 1..MaxStride]

\* ------------------------------------------------------------ label files
\* A line of the labels file is its characters; a label name is one token.
LabelFiles ==
  { << <<"cat", "LF">>, <<"dog", "LF">> >>,
    << <<"dog", "CR", "LF">>, <<"cat", "CR", "LF">> >>,
    << <<"cat", "LF">>, <<"bird", "LF">> >>,
    << <<"cat", "LF">>, <<"dog", "CR", "LF">>, <<"dog">> >> }

RECURSIVE rstrip(_, _)
rstrip(s, ch) ==
  IF Len(s) > 0 /\ s[Len(s)] = ch THEN rstrip(SubSeq(s, 1, Len(s) - 1), ch) ELSE s

ReadLabels(file) ==
  [i \in 1..Len(file) |-> rstrip(rstrip(file[i], "LF"), "CR")]

\* list.index: the first position (from 0); NotFound stands for ValueError.
NotFound == -1

IndexOrZero(ls, t) ==
  LET S == {i \in 1..Len(ls) : ls[i] = t}
  IN  IF S = {} THEN 0 ELSE (CHOOSE i \in S : \A j \in S : i <= j) - 1

Index(ls, t) ==
  LET S == {i \in 1..Len(ls) : ls[i] = t}
  IN  IF S = {} THEN NotFound ELSE (CHOOSE i \in S : \A j \in S : i <= j) - 1

\* ------------------------------------------------------------ window grid
NumWindowsNoLast(frame, window, step) == (frame - window) \div step

\* math.floor((frame - window) / step) + 1
NumWindows(frame, window, step) == ((frame - window) \div step) + 1

\* ------------------------------------------------------------- classifier
\* What tf.classify can do on one patch: raise, or return a vector.
Outputs ==
  { [raises |-> TRUE,  vec |-> <<>>],
    [raises |-> FALSE, vec |-> <<40, 60>>],
    [raises |-> FALSE, vec |-> <<61, 39>>],
    [raises |-> FALSE, vec |-> <<60>>],
    [raises |-> FALSE, vec |-> <<20, 61, 19>>] }

GridSize(cfg) ==
  LET nh == NumWindows(cfg.width, cfg.window_width, cfg.stride)
      nv == NumWindows(cfg.height, cfg.window_height, cfg.stride)
  IN  IF nh < 1 \/ nv < 1 THEN 0 ELSE nh * nv

ModelRanges(cfg) ==
  IF GridSize(cfg) <= MaxRichWindows THEN {Outputs} ELSE {{o} : o \in Outputs}

\* --------------------------------------------------------------- images
NoImage == [scene |-> 0, extent |-> <<0, 0, 0, 0>>, drawn |-> {}]

Overlaps(r, q) ==
  /\ r[1] < q[1] + q[3] /\ q[1] < r[1] + r[3]
  /\ r[2] < q[2] + q[4] /\ q[2] < r[2] + r[4]

Patch(im, roi) ==
  [scene |-> im.scene, extent |-> roi, drawn |-> {r \in im.drawn : Overlaps(r, roi)}]

\* img.crop(roi=...) crops the image itself
CropInPlace(im, roi) == [source |-> Patch(im, roi), copy |-> Patch(im, roi)]

\* img.copy(roi=...) returns a new image and leaves im as it was
CopyRoi(im, roi) == [source |-> im, copy |-> Patch(im, roi)]

Range(s) == {s[i] : i \in 1..Len(s)}

DrawRectangles(im, boxes) ==
  [im EXCEPT !.drawn = @ \cup {<<b[1], b[2], b[3], b[4]>> : b \in Range(boxes)}]

VARIABLES
  script, cfg, labels_file, model_outputs,
  pc, error, labels, target_idx,
  num_horizontal_windows, num_vertical_windows,
  frames, img, bboxes, vertical_window, horizontal_window,
  net, calls, printed, res

vars ==
  <<script, cfg, labels_file, model_outputs, pc, error, labels, target_idx,
    num_horizontal_windows, num_vertical_windows, frames, img, bboxes,
    vertical_window, horizontal_window, net, calls, printed, res>>

settings == <<script, cfg, labels_file, model_outputs>>
startup == <<labels, target_idx, num_horizontal_windows, num_vertical_windows>>
scan == <<bboxes, vertical_window, horizontal_window, net, calls>>

NoResult == [kind |-> "unset", bounding_boxes |-> <<>>]

Init ==
  /\ script \in {"openmv", "pi_project", "pi_detect"}
  /\ \/ /\ script = "openmv"
        /\ cfg \in SmallSettings \cup {OpenMVSettings}
        /\ labels_file \in LabelFiles
        /\ model_outputs \in ModelRanges(cfg)
     \/ /\ script = "pi_project"
        /\ cfg \in SmallSettings \cup {PiSettings}
        /\ labels_file = <<>>
        /\ model_outputs = {}
     \/ /\ script = "pi_detect"
        /\ cfg = PiSettings
        /\ labels_file = <<>>
        /\ model_outputs = {}
  /\ pc = "start"
  /\ error = "none"
  /\ labels = <<>>
  /\ target_idx = NotFound
  /\ num_horizontal_windows = 0
  /\ num_vertical_windows = 0
  /\ frames = 0
  /\ img = NoImage
  /\ bboxes = <<>>
  /\ vertical_window = 0
  /\ horizontal_window = 0
  /\ net = {}
  /\ calls = <<>>
  /\ printed = <<>>
  /\ res = NoResult

\* ================================================================ openmv
Crash(e) == pc' = "crashed" /\ error' = e

\* lines 32-43: labels, window counts, target index
Startup ==
  /\ script = "openmv" /\ pc = "start"
  /\ labels' = ReadLabels(labels_file)
  /\ num_horizontal_windows' = NumWindows(cfg.width, cfg.window_width, cfg.stride)
  /\ num_vertical_windows' = NumWindows(cfg.height, cfg.window_height, cfg.stride)
  /\ LET idx == Index(ReadLabels(labels_file), target_label)
     IN  IF idx = NotFound
           THEN Crash("ValueError") /\ UNCHANGED target_idx
           ELSE target_idx' = idx /\ pc' = "loop" /\ UNCHANGED error
  /\ UNCHANGED <<settings, frames, img, scan, printed, res>>

\* The camera sees the scene of the frame before, or a scene never seen.
Capture(same) ==
  [scene |-> IF same THEN img.scene ELSE frames + 1,
   extent |-> <<0, 0, cfg.width, cfg.height>>, drawn |-> {}]

StaleBoxes == bboxes

\* line 61: bboxes = []
FreshBoxes == <<>>

\* lines 50-61: clock.tick(), sensor.snapshot(), bboxes = [], loop counters
Snapshot ==
  /\ script = "openmv" /\ pc = "loop"
  /\ frames < MaxFrames
  /\ \E same \in BOOLEAN :
       /\ same => frames > 0
       /\ img' = Capture(same)
       /\ net' = IF same THEN net ELSE {}
       /\ printed' = IF same THEN printed ELSE <<>>
  /\ frames' = frames + 1
  /\ bboxes' = FreshBoxes
  /\ vertical_window' = 0
  /\ horizontal_window' = 0
  /\ calls' = <<>>
  /\ pc' = "scan"
  /\ UNCHANGED <<settings, startup, error, res>>

WindowOriginSwapped(v, h) == <<v * cfg.stride, h * cfg.stride>>

\* lines 66-67: x = horizontal_window * stride, y = vertical_window * stride
WindowOrigin(v, h) == <<h * cfg.stride, v * cfg.stride>>

OverThreshold(p) == p > target_threshold

\* line 78: predictions[target_idx] >= target_threshold
MeetsThreshold(p) == p >= target_threshold

\* The classifier on a patch: what it answered before, else any of its outputs.
Classify(patch) ==
  LET known == {e \in net : e.patch = patch}
  IN  IF known = {} THEN model_outputs ELSE {e.out : e \in known}

\* lines 63-79: one window
ScanWindow ==
  /\ script = "openmv" /\ pc = "scan"
  /\ vertical_window < num_vertical_windows
  /\ horizontal_window < num_horizontal_windows
  /\ LET xy == WindowOrigin(vertical_window, horizontal_window)
         roi == <<xy[1], xy[2], cfg.window_width, cfg.window_height>>
         cp == CopyRoi(img, roi)
     IN  /\ img' = cp.source
         /\ \E o \in Classify(cp.copy) :
              /\ net' = net \cup {[patch |-> cp.copy, out |-> o]}
              /\ calls' = Append(calls, [x |-> xy[1], y |-> xy[2],
                                         patch |-> cp.copy, out |-> o])
              /\ IF o.raises
                   THEN /\ Crash("ClassifierError")
                        /\ UNCHANGED <<bboxes, horizontal_window>>
                   ELSE IF target_idx >= Len(o.vec)
                   THEN /\ Crash("IndexError")
                        /\ UNCHANGED <<bboxes, horizontal_window>>
                   ELSE /\ bboxes' =
                             IF MeetsThreshold(o.vec[target_idx + 1])
                               THEN Append(bboxes, <<xy[1], xy[2], cfg.window_width,
                                                     cfg.window_height,
                                                     o.vec[target_idx + 1]>>)
                               ELSE bboxes
                        /\ horizontal_window' = horizontal_window + 1
                        /\ UNCHANGED <<pc, error>>
  /\ UNCHANGED <<settings, startup, frames, vertical_window, printed, res>>

\* line 63 exhausted: next turn of line 62
NextRow ==
  /\ script = "openmv" /\ pc = "scan"
  /\ vertical_window < num_vertical_windows
  /\ horizontal_window >= num_horizontal_windows
  /\ vertical_window' = vertical_window + 1
  /\ horizontal_window' = 0
  /\ UNCHANGED <<settings, startup, pc, error, frames, img, bboxes, net, calls,
                 printed, res>>

\* line 62 exhausted
EndScan ==
  /\ script = "openmv" /\ pc = "scan"
  /\ vertical_window >= num_vertical_windows
  /\ pc' = "draw"
  /\ UNCHANGED <<settings, startup, error, frames, img, scan, printed, res>>

\* lines 82-83
DrawBoxes ==
  /\ script = "openmv" /\ pc = "draw"
  /\ img' = DrawRectangles(img, bboxes)
  /\ pc' = "print"
  /\ UNCHANGED <<settings, startup, error, frames, scan, printed, res>>

\* lines 86-91
PrintBoxes ==
  /\ script = "openmv" /\ pc = "print"
  /\ printed' = Append(printed, bboxes)
  /\ pc' = "loop"
  /\ UNCHANGED <<settings, startup, error, frames, img, scan, res>>

\* ============================================================ pi_project
\* lines 38-56: runner.init() (which may fail: exit 1), window counts
ProjectStartup ==
  /\ script = "pi_project" /\ pc = "start"
  /\ \E ok \in BOOLEAN :
       IF ok
         THEN /\ num_horizontal_windows' =
                   NumWindows(cfg.width, cfg.window_width, cfg.stride)
              /\ num_vertical_windows' =
                   NumWindows(cfg.height, cfg.window_height, cfg.stride)
              /\ pc' = "loop"
         ELSE /\ pc' = "exited"
              /\ UNCHANGED <<num_horizontal_windows, num_vertical_windows>>
  /\ UNCHANGED <<settings, error, labels, target_idx, frames, img, scan, printed, res>>

\* lines 72-103: one frame is captured and shown; 'q' leaves the loop
ProjectFrame ==
  /\ script = "pi_project" /\ pc = "loop"
  /\ frames < MaxFrames
  /\ frames' = frames + 1
  /\ \E same \in BOOLEAN : (same => frames > 0) /\ img' = Capture(same)
  /\ \E quit \in BOOLEAN : pc' = IF quit THEN "done" ELSE "loop"
  /\ UNCHANGED <<settings, startup, error, scan, printed, res>>

\* ============================================================= pi_detect
Box1 == [x |-> 8, y |-> 16, width |-> 24, height |-> 24]

DetectResults ==
  { [kind |-> "None", bounding_boxes |-> <<>>],
    [kind |-> "dict", bounding_boxes |-> <<>>],
    [kind |-> "dict", bounding_boxes |-> <<Box1>>] }

\* lines 35-46
DetectStartup ==
  /\ script = "pi_detect" /\ pc = "start"
  /\ \E ok \in BOOLEAN : pc' = IF ok THEN "loop" ELSE "exited"
  /\ UNCHANGED <<settings, startup, error, frames, img, scan, printed, res>>

\* lines 62-74
DetectCapture ==
  /\ script = "pi_detect" /\ pc = "loop"
  /\ frames < MaxFrames
  /\ frames' = frames + 1
  /\ \E same \in BOOLEAN : (same => frames > 0) /\ img' = Capture(same)
  /\ pc' = "classify"
  /\ UNCHANGED <<settings, startup, error, scan, printed, res>>

\* lines 77-85: res = None; runner.classify raising leaves it None
DetectClassify ==
  /\ script = "pi_detect" /\ pc = "classify"
  /\ res' \in DetectResults
  /\ pc' = "render"
  /\ UNCHANGED <<settings, startup, error, frames, img, scan, printed>>

\* lines 88-132: res['result']['bounding_boxes'], drawing, 'q'
DetectRender ==
  /\ script = "pi_detect" /\ pc = "render"
  /\ IF res.kind = "None"
       THEN Crash("TypeError") /\ UNCHANGED img
       ELSE /\ img' = [img EXCEPT !.drawn = @ \cup
                         {<<b.x, b.y, b.width, b.height>> :
                            b \in Range(res.bounding_boxes)}]
            /\ \E quit \in BOOLEAN : pc' = IF quit THEN "done" ELSE "loop"
            /\ UNCHANGED error
  /\ UNCHANGED <<settings, startup, frames, scan, printed, res>>

Next ==
  \/ Startup \/ Snapshot \/ ScanWindow \/ NextRow \/ EndScan \/ DrawBoxes
  \/ PrintBoxes
  \/ ProjectStartup \/ ProjectFrame
  \/ DetectStartup \/ DetectCapture \/ DetectClassify \/ DetectRender

Spec == Init /\ [][Next]_vars

\* ================================================================ claims
Fits == cfg.window_width <= cfg.width /\ cfg.window_height <= cfg.height
Scanned == script = "openmv" /\ pc \in {"draw", "print"}
Running == script = "openmv" /\ pc \in {"loop", "scan", "draw", "print"}
Aligned(limit, step) == {p \in 0..limit : p % step = 0}
Visited == [i \in 1..Len(calls) |-> <<calls[i].x, calls[i].y>>]
Score(c) == c.out.vec[target_idx + 1]
Raster(a, b) == a[2] < b[2] \/ (a[2] = b[2] /\ a[1] < b[1])
RasterOrdered(s) == \A i, j \in 1..Len(s) : i < j => Raster(s[i], s[j])

\* C1: when the window fits the frame, a finished scan has visited exactly
\* (floor((W-w)/stride)+1) * (floor((H-h)/stride)+1) windows, namely every
\* stride-aligned position with 0 <= x <= W-w and 0 <= y <= H-h and no other;
\* 160x120 with 48x48 windows and stride 24 gives 20, and a window the size
\* of the frame gives the single window (0,0).  The Pi script computes the
\* same counts.
C1_WindowGrid ==
  Fits =>
    LET xs == Aligned(cfg.width - cfg.window_width, cfg.stride)
        ys == Aligned(cfg.height - cfg.window_height, cfg.stride)
        nh == ((cfg.width - cfg.window_width) \div cfg.stride) + 1
        nv == ((cfg.height - cfg.window_height) \div cfg.stride) + 1
    IN  /\ \A i \in 1..Len(calls) : calls[i].x \in xs /\ calls[i].y \in ys
        /\ Scanned =>
             /\ Len(calls) = nh * nv
             /\ Range(Visited) = xs \X ys
             /\ cfg = OpenMVSettings => Len(calls) = 20
             /\ (cfg.window_width = cfg.width /\ cfg.window_height = cfg.height)
                  => Visited = << <<0, 0>> >>
        /\ (script = "pi_project" /\ pc = "loop") =>
             /\ num_horizontal_windows = Cardinality(xs)
             /\ num_vertical_windows = Cardinality(ys)
             /\ num_horizontal_windows * num_vertical_windows = nh * nv

C1_Witness == Scanned /\ cfg = OpenMVSettings /\ Len(calls) = 20

\* C2: after a scan, a window is in bboxes exactly when its target
\* probability is >= the threshold (equal included, below excluded), once,
\* as (x, y, window_width, window_height, that probability); bboxes holds
\* nothing else.
C2_ThresholdedDetections ==
  Scanned =>
    /\ \A i \in 1..Len(calls) :
         LET c == calls[i]
             at == {j \in 1..Len(bboxes) : bboxes[j][1] = c.x /\ bboxes[j][2] = c.y}
         IN  IF Score(c) >= target_threshold
               THEN /\ Cardinality(at) = 1
                    /\ \A j \in at : bboxes[j] = <<c.x, c.y, cfg.window_width,
                                                   cfg.window_height, Score(c)>>
               ELSE at = {}
    /\ \A j \in 1..Len(bboxes) :
         \E i \in 1..Len(calls) : bboxes[j][1] = calls[i].x /\ bboxes[j][2] = calls[i].y

C2_Witness ==
  /\ Scanned
  /\ \E i, j \in 1..Len(calls) :
       /\ Score(calls[i]) = target_threshold
       /\ Score(calls[j]) < target_threshold
  /\ Len(bboxes) >= 1

\* C3: windows are classified, and detections appended and printed, in
\* raster order (smaller y first, then smaller x), whatever their scores.
C3_RasterOrder ==
  script = "openmv" =>
    /\ RasterOrdered(Visited)
    /\ RasterOrdered(bboxes)
    /\ \A k \in 1..Len(printed) : RasterOrdered(printed[k])

C3_Witness ==
  /\ script = "openmv" /\ Len(printed) >= 1
  /\ \E i, j, k \in 1..Len(bboxes) :
       /\ i < j /\ j < k
       /\ bboxes[i][5] < bboxes[j][5] /\ bboxes[j][5] > bboxes[k][5]
       /\ bboxes[i][2] < bboxes[k][2]

\* C4: a window larger than the frame is a configuration error at startup:
\* no frame is captured.
C4_OversizeWindowIsConfigError ==
  (script \in {"openmv", "pi_project"} /\ ~Fits) => frames = 0

\* C5: a classifier error on one frame never ends the capture loop.
C5_ClassifierErrorKeepsLoop ==
  ~(pc = "crashed" /\ error \in {"ClassifierError", "TypeError"})

\* C6: a probability vector whose length is not the number of labels fails
\* the scan: it is never accepted and thresholded.
C6_WrongLengthVectorRejected ==
  (script = "openmv"
     /\ \E i \in 1..Len(calls) :
          ~calls[i].out.raises /\ Len(calls[i].out.vec) # Len(labels))
    => pc = "crashed"

\* C7: after a classifier execution error on one window, every later window
\* of the frame is still classified: the run never ends on such an error with
\* windows of the frame left over.
C7_LaterWindowsStillClassified ==
  (script = "openmv" /\ pc = "crashed" /\ error = "ClassifierError")
    => Len(calls) = num_horizontal_windows * num_vertical_windows

\* C8: with the target label absent from the labels file, startup fails: no
\* frame is captured and the classifier is never called; while the capture
\* loop runs, target_idx is a position of labels holding target_label, and
\* it never changes.
C8_TargetLabelResolved ==
  /\ [](script = "openmv" =>
          /\ (\A i \in 1..Len(labels_file) :
                rstrip(rstrip(labels_file[i], "LF"), "CR") # target_label)
               => (frames = 0 /\ calls = <<>> /\ pc \in {"start", "crashed"})
          /\ Running =>
               /\ target_idx \in 0..(Len(labels) - 1)
               /\ labels[target_idx + 1] = target_label)
  /\ [][Running => target_idx' = target_idx]_vars

C8_Witness ==
  /\ script = "openmv" /\ pc = "crashed" /\ error = "ValueError"
  /\ frames = 0 /\ labels # <<>>

\* C9: frames of one scene print the same detection sequence, and every
\* scan starts from an empty list.
C9_SameSceneSameDetections ==
  script = "openmv" =>
    /\ \A i, j \in 1..Len(printed) : printed[i] = printed[j]
    /\ (pc = "scan" /\ calls = <<>>) => bboxes = <<>>

C9_Witness ==
  script = "openmv" /\ Len(printed) = 2 /\ Len(printed[1]) >= 2

\* C10: a scan leaves the frame as captured and calls the classifier once
\* per grid window; no rectangle is on the frame, or in a classified patch,
\* before the scan is over.
C10_FrameUntouchedDuringScan ==
  /\ [][(script = "openmv" /\ pc = "scan") => img' = img]_vars
  /\ [](script = "openmv" =>
          /\ pc = "scan" => img = [scene |-> img.scene,
                                    extent |-> <<0, 0, cfg.width, cfg.height>>,
                                    drawn |-> {}]
          /\ \A i \in 1..Len(calls) : calls[i].patch.drawn = {}
          /\ \A i, j \in 1..Len(calls) : Visited[i] = Visited[j] => i = j
          /\ Scanned =>
               \A v \in 0..(num_vertical_windows - 1) :
                 \A h \in 0..(num_horizontal_windows - 1) :
                   \E i \in 1..Len(calls) :
                     Visited[i] = <<h * cfg.stride, v * cfg.stride>>)

C10_Witness ==
  script = "openmv" /\ pc = "print" /\ img.drawn # {} /\ Len(calls) >= 2

====
